---- MODULE Spec2Model ----
(***************************************************************************)
(* A model of the geometry, masking, sampling and patch-tiling code of     *)
(* the radio preprocessing package:                                        *)
(*   src/preprocessing/patches.py          put_patches_numba,              *)
(*                                         assemble_patches                *)
(*   src/preprocessing/ct_masked_batch.py  CTImagesMaskedBatch             *)
(*                                                                         *)
(* Three specifications share the module:                                  *)
(*   SpecPatches  the two patch kernels applied to drawn volumes           *)
(*   SpecFit      _fit_into_bounds applied to drawn records                *)
(*   Spec         the life of masked batches: fetch_nodules_info,          *)
(*                create_mask, resize, make_xip, sample_nodules            *)
(* Floating-point values are modelled as exact rationals <<n, d>>.         *)
(***************************************************************************)
EXTENDS Integers, Sequences, FiniteSets, TLC

VARIABLES
    \* ---- patches.py
    img,          \* the 3d volume handed to put_patches_numba
    patch_shape,  \* the (r) argument patch_shape
    stride,       \* the (r) argument stride
    patches,      \* the 4d out_arr of put_patches_numba: a sequence of patches
    out_arr,      \* the out_arr of assemble_patches
    weights_inv,  \* the overlap counter of assemble_patches
    ppc,          \* "start" -> "tiled" -> "assembled"
    perr,         \* the exception assemble_patches ended with, or "none"
    \* ---- _fit_into_bounds applied to one drawn nodule table
    fit_in,       \* [nodules, size, jitter]: the table, the size argument and
                  \* the multivariate_normal sample (zeros without variance)
    fit_out,      \* the returned start positions
    fpc,          \* "drawn" -> "done"
    \* ---- CTImagesMaskedBatch objects
    batches,      \* batch id -> the batch object (its geometry, its reference
                  \* to a nodule table, its mask)
    tables,       \* table id -> the np.rec.array a batch's nodules refers to
    call,         \* the last method call and its arguments
    ret,          \* what that call returned or raised
    log,          \* the diagnostic that call logged, "" if none
    ncalls        \* the number of method calls so far

pvars == <<img, patch_shape, stride, patches, out_arr, weights_inv, ppc, perr>>
fvars == <<fit_in, fit_out, fpc>>

bvars == <<batches, tables, call, ret, log, ncalls>>

vars == <<pvars, fvars, bvars>>

NULL == "None"

(***************************************************************************)
(* Exact rationals <<n, d>>, d > 0, in lowest terms: the float64 values    *)
(* of the code on inputs where float arithmetic is exact.                  *)
(***************************************************************************)
Abs(i) == IF i < 0 THEN -i ELSE i

RECURSIVE Gcd(_, _)
Gcd(a, b) == IF b = 0 THEN a ELSE Gcd(b, a % b)

Rat(n, d) ==
    LET g == Gcd(Abs(n), Abs(d))
        s == IF d < 0 THEN -1 ELSE 1
    IN  <<(s * n) \div g, (s * d) \div g>>

RI(i) == <<i, 1>>
RAdd(a, b) == Rat(a[1] * b[2] + b[1] * a[2], a[2] * b[2])
RSub(a, b) == Rat(a[1] * b[2] - b[1] * a[2], a[2] * b[2])
RMul(a, b) == Rat(a[1] * b[1], a[2] * b[2])
RDiv(a, b) == Rat(a[1] * b[2], a[2] * b[1])
RNeg(a) == <<-a[1], a[2]>>
RAbs(a) == <<Abs(a[1]), a[2]>>
RLe(a, b) == a[1] * b[2] <= b[1] * a[2]
RMax(a, b) == IF RLe(a, b) THEN b ELSE a
RFloor(a) == a[1] \div a[2]

\* np.rint: round to the nearest integer, halves to the even one
rint(a) ==
    LET f == RFloor(a)
        r2 == 2 * (a[1] - f * a[2])
    IN  IF r2 < a[2] THEN f
        ELSE IF r2 > a[2] THEN f + 1
        ELSE IF f % 2 = 0 THEN f ELSE f + 1

\* ndarray.astype(np.int) and int(): truncation toward zero
astype_int(a) == IF a[1] >= 0 THEN RFloor(a) ELSE -RFloor(RNeg(a))

Axes == 1..3

\* The index triples start .. start + size - 1 of a 3d slice
Box(start, size) ==
    {<<z, y, x>> : z \in start[1]..(start[1] + size[1] - 1),
                   y \in start[2]..(start[2] + size[2] - 1),
                   x \in start[3]..(start[3] + size[3] - 1)}

\* A 3d array of a shape: a function on the index triples 0 .. shape - 1
Indices(shape) == Box(<<0, 0, 0>>, shape)
zeros(shape) == [v \in Indices(shape) |-> 0]
ShapeOf(arr) ==
    IF DOMAIN arr = {} THEN <<0, 0, 0>>
    ELSE [a \in Axes |-> 1 + (CHOOSE m \in {v[a] : v \in DOMAIN arr} :
                                  \A v \in DOMAIN arr : v[a] <= m)]

(***************************************************************************)
(* patches.py                                                              *)
(***************************************************************************)
MaxDim == 3

\* (shape - patch_shape) // stride + 1, per axis
num_sections(shape, pshape, strd) ==
    [a \in Axes |-> ((shape[a] - pshape[a]) \div strd[a]) + 1]

NumPatches(ns) ==
    IF \E a \in Axes : ns[a] <= 0 THEN 0 ELSE ns[1] * ns[2] * ns[3]

\* The start of the patch the nested loops reach with counter ctr (0-based):
\* ix outermost, iz innermost
PatchStart(ctr, ns, strd) ==
    LET ix == ctr \div (ns[2] * ns[3])
        iy == (ctr \div ns[3]) % ns[2]
        iz == ctr % ns[3]
    IN  <<ix * strd[1], iy * strd[2], iz * strd[3]>>

\* out_arr[ctr, :, :, :] = img[slc_x, slc_y, slc_z]
put_patches_numba(image, pshape, strd) ==
    LET ns == num_sections(ShapeOf(image), pshape, strd)
    IN  [k \in 1..NumPatches(ns) |->
            LET st == PatchStart(k - 1, ns, strd)
            IN  [v \in Indices(pshape) |->
                    image[<<st[1] + v[1], st[2] + v[2], st[3] + v[3]>>]]]

\* The name img on line 91 of assemble_patches: the function has no
\* parameter, local or module global of that name, so the first iteration
\* of the loop ends the call with a NameError before anything is written.
img_is_bound == FALSE

\* One iteration of the loop of assemble_patches on the array named target
AssembleAdd(target, patch, st) ==
    [v \in DOMAIN target |->
        IF <<v[1] - st[1], v[2] - st[2], v[3] - st[3]>> \in DOMAIN patch
        THEN target[v] + patch[<<v[1] - st[1], v[2] - st[2], v[3] - st[3]>>]
        ELSE target[v]]

RECURSIVE AssembleLoop(_, _, _, _, _, _)
AssembleLoop(ctr, ns, strd, pats, acc, wts) ==
    IF ctr >= NumPatches(ns) THEN [acc |-> acc, wts |-> wts]
    ELSE LET st == PatchStart(ctr, ns, strd)
             pshape == ShapeOf(pats[ctr + 1])
         IN  AssembleLoop(ctr + 1, ns, strd, pats,
                          AssembleAdd(acc, pats[ctr + 1], st),
                          AssembleAdd(wts, [v \in Indices(pshape) |-> 1], st))

\* float64 NaN, the value of 0.0 / 0.0
NaN == <<0, 0>>

\* out_arr /= weights_inv
Divide(acc, wts) ==
    [v \in DOMAIN acc |->
        IF wts[v] = 0 THEN NaN ELSE Rat(acc[v], wts[v])]

\* An integer-valued array as the float64 array it is stored in
AsFloat(arr) == [v \in DOMAIN arr |-> RI(arr[v])]

\* assemble_patches(patches, stride, out_arr): the arrays and the exception
\* the call ends with.  pshape is patches.shape[1:].
assemble_patches(pats, pshape, strd, out) ==
    LET ns == num_sections(ShapeOf(out), pshape, strd)
    IN  IF NumPatches(ns) > 0 /\ ~img_is_bound
        THEN [out_arr |-> AsFloat(out), weights_inv |-> zeros(ShapeOf(out)),
              err |-> "NameError"]
        ELSE LET r == AssembleLoop(0, ns, strd, pats, out, zeros(ShapeOf(out)))
             IN  [out_arr |-> Divide(r.acc, r.wts), weights_inv |-> r.wts,
                  err |-> "none"]

(***************************************************************************)
(* ct_masked_batch.py: the nodule table and the coordinate arithmetic      *)
(***************************************************************************)
R0 == RI(0)
RZ3 == <<R0, R0, R0>>
Z3 == <<0, 0, 0>>
AsRat3(t) == [a \in Axes |-> RI(t[a])]

\* One row of np.zeros(num_nodules, dtype=nodules_dtype)
nodules_dtype ==
    [patient_pos |-> 0, offset |-> Z3, img_size |-> Z3,
     nodule_center |-> RZ3, nodule_size |-> RZ3,
     spacing |-> RZ3, origin |-> RZ3]

\* np.abs(nodule_center - origin) / spacing, for one record
center_pix(rec) ==
    [a \in Axes |->
        RDiv(RAbs(RSub(rec.nodule_center[a], rec.origin[a])), rec.spacing[a])]

\* np.maximum(-start_pix, 0) added to start_pix, on one axis
LowerClampMissing(start) == start
LowerClamp(start) == RAdd(start, RMax(RNeg(start), R0))

\* Lines 299-307 on one axis: the upper clamp, then the lower clamp (the
\* other order would pin a box larger than the image to the upper bound)
ClampsLowerFirst(start_pix, size, img_size) ==
    LET start_lo == LowerClamp(start_pix)
        end_pix == RAdd(start_lo, RI(size))
    IN  RSub(start_lo, RMax(RSub(end_pix, RI(img_size)), R0))
Clamps(start_pix, size, img_size) ==
    LET end_pix == RAdd(start_pix, RI(size))
        bias_upper == RMax(RSub(end_pix, RI(img_size)), R0)
    IN  LowerClamp(RSub(start_pix, bias_upper))

\* _fit_into_bounds for one record: size an integer triple, jit the record's
\* row of the multivariate-normal sample (zeros when variance is None)
FitRow(rec, size, jit) ==
    LET cp == center_pix(rec)
    IN  [a \in Axes |->
            LET half == rint(Rat(size[a], 2))
                start_pix == RAdd(RI(rint(cp[a]) - half), jit[a])
                start_lo == Clamps(start_pix, size[a], rec.img_size[a])
            IN  astype_int(RAdd(start_lo, RI(rec.offset[a])))]

\* _fit_into_bounds(size, variance): one start per row of self.nodules
_fit_into_bounds(nodules, size, jitter) ==
    [i \in DOMAIN nodules |-> FitRow(nodules[i], size, jitter[i])]

(***************************************************************************)
(* CTImagesBatch, the base class (ct_batch.py, not among the sources): the *)
(* skyscraper geometry as the specification describes it                   *)
(***************************************************************************)
RECURSIVE SumZ(_, _)
SumZ(shape, n) == IF n = 0 THEN 0 ELSE shape[n][1] + SumZ(shape, n - 1)

\* len(self)
BatchLen(b) == Len(b.shape)

\* self.lower_bounds: each patient's first row in the stacked array
lower_bounds(b) == [p \in 1..BatchLen(b) |-> SumZ(b.shape, p - 1)]

\* self.data.shape: the patients stacked along the first axis
data_shape(b) ==
    IF BatchLen(b) = 0 THEN Z3
    ELSE <<SumZ(b.shape, BatchLen(b)), b.shape[1][2], b.shape[1][3]>>

\* self.rescale(new_shape): the spacing that keeps every patient's physical
\* extent, spacing * shape / new_shape
rescale(b, new_shape) ==
    [p \in 1..BatchLen(b) |->
        [a \in Axes |->
            RDiv(RMul(b.spacing[p][a], RI(b.shape[p][a])), RI(new_shape[a]))]]

\* The data, bounds and spacing CTImagesBatch._post_rebuild gives the rebuilt
\* batch after a resize to new_shape (origin is kept)
base_post_rebuild(b, new_shape) ==
    [b EXCEPT !.shape = [p \in 1..BatchLen(b) |-> new_shape],
              !.spacing = rescale(b, new_shape)]

\* The data and bounds of the batch CTImagesBatch.make_xip returns: every
\* patient's extent on axis pr reduced by cut (at least one slice is left)
base_make_xip(b, pr, cut) ==
    [b EXCEPT !.shape =
        [p \in 1..BatchLen(b) |->
            [b.shape[p] EXCEPT ![pr] = IF @ - cut < 1 THEN 1 ELSE @ - cut]]]

(***************************************************************************)
(* mask.py (not among the sources): make_mask_numba as the specification   *)
(* describes it, each record's box restricted to the record's sub-range    *)
(* img_start .. img_end of the mask array                                  *)
(***************************************************************************)
NoMask == [present |-> FALSE, shape |-> Z3, fg |-> {}, written |-> <<>>]

\* The voxels start .. end - 1
Range(start, end) == Box(start, [a \in Axes |-> end[a] - start[a]])

\* written[i]: the voxels record i set, with the sub-range it was given
make_mask_numba(shape, img_start, img_end, nodules_start, nodules_size) ==
    LET wr == [i \in DOMAIN nodules_start |->
                 [record |-> i, img_start |-> img_start[i], img_end |-> img_end[i],
                  voxels |->
                     Box([a \in Axes |-> img_start[i][a] + nodules_start[i][a]],
                         nodules_size[i])
                     \cap Range(img_start[i], img_end[i])
                     \cap Indices(shape)]]
    IN  [present |-> TRUE, shape |-> shape,
         fg |-> UNION {wr[i].voxels : i \in DOMAIN wr},
         written |-> wr]

(***************************************************************************)
(* CTImagesMaskedBatch                                                     *)
(***************************************************************************)
\* self.indices of the batches of the model
PatientIds == <<1, 2>>

\* self.index.get_pos(pat_id): 0-based
get_pos(pat_id) == (CHOOSE p \in DOMAIN PatientIds : PatientIds[p] = pat_id) - 1

\* __init__: mask and nodules are None (nodules = 0: no table)
NewBatch(shape, spacing, origin) ==
    [live |-> TRUE, shape |-> shape, spacing |-> spacing, origin |-> origin,
     nodules |-> 0, mask |-> NoMask]

DeadBatch ==
    [live |-> FALSE, shape |-> <<>>, spacing |-> <<>>, origin |-> <<>>,
     nodules |-> 0, mask |-> NoMask]

\* self.nodules.offset[:, 0] = lower_bounds[patient_pos], written in place
\* (offset += ... would be the accumulating slip)
RefreshOffsetAccumulates(rec, b) ==
    [rec.offset EXCEPT ![1] = @ + lower_bounds(b)[rec.patient_pos + 1]]
RefreshOffset(rec, b) ==
    [rec.offset EXCEPT ![1] = lower_bounds(b)[rec.patient_pos + 1]]

\* _refresh_nodules_info: the table of batch b after the call
_refresh_nodules_info(nodules, b) ==
    [i \in DOMAIN nodules |->
        [nodules[i] EXCEPT
            !.offset = RefreshOffset(nodules[i], b),
            !.spacing = b.spacing[nodules[i].patient_pos + 1],
            !.origin = b.origin[nodules[i].patient_pos + 1],
            !.img_size = b.shape[nodules[i].patient_pos + 1]]]

\* nodules_df.loc[inter_index]: the rows of the patients of the batch, by
\* ascending patient id (np.intersect1d sorts), each patient's rows in order
RECURSIVE RowsByIndex(_, _)
RowsByIndex(df, ids) ==
    IF ids = {} THEN <<>>
    ELSE LET id == CHOOSE i \in ids : \A j \in ids : i <= j
         IN  SelectSeq(df, LAMBDA r : r.seriesuid = id)
                 \o RowsByIndex(df, ids \ {id})

inter_index(df) ==
    {df[i].seriesuid : i \in DOMAIN df} \cap {PatientIds[p] : p \in DOMAIN PatientIds}

\* The loop of fetch_nodules_info over nodules_df.itertuples()
NoduleRows(df) ==
    LET rows == RowsByIndex(df, inter_index(df))
    IN  [i \in DOMAIN rows |->
            [nodules_dtype EXCEPT
                !.patient_pos = get_pos(rows[i].seriesuid),
                !.nodule_center = <<RI(rows[i].coordZ), RI(rows[i].coordY),
                                    RI(rows[i].coordX)>>,
                !.nodule_size = <<RI(rows[i].diameter_mm),
                                  RI(rows[i].diameter_mm),
                                  RI(rows[i].diameter_mm)>>]]

\* The guard of fetch_nodules_info: the table is kept unless update is set
KeepsTableNever(b, update) == FALSE
KeepsTable(b, update) == b.nodules # 0 /\ ~update

\* create_mask's arguments to make_mask_numba, from the table
MaskStart(rec) ==
    LET cp == center_pix(rec)
    IN  [a \in Axes |->
            rint(RSub(cp[a],
                      RI(rint(RDiv(RDiv(rec.nodule_size[a], rec.spacing[a]),
                                   RI(2))))))]
MaskSize(rec) ==
    [a \in Axes |-> rint(RDiv(rec.nodule_size[a], rec.spacing[a]))]

\* create_mask on batch b whose table is nodules (has: self.nodules is not
\* None): the mask it leaves, the exception it ends with, what it logs
create_mask(b, has, nodules) ==
    IF ~has
    THEN [mask |-> [NoMask EXCEPT !.present = TRUE, !.shape = data_shape(b)],
          exc |-> "AttributeError",
          log |-> "Info about nodules location must be loaded"]
    ELSE [mask |->
            make_mask_numba(data_shape(b),
                [i \in DOMAIN nodules |-> nodules[i].offset],
                [i \in DOMAIN nodules |->
                    [a \in Axes |-> nodules[i].img_size[a] + nodules[i].offset[a]]],
                [i \in DOMAIN nodules |-> MaskStart(nodules[i])],
                [i \in DOMAIN nodules |-> MaskSize(nodules[i])]),
          exc |-> "none", log |-> ""]

Dims == 1..MaxDim
Shapes == {<<z, y, x>> : z \in Dims, y \in Dims, x \in Dims}

LinIndex(v, shape) == (v[1] * shape[2] + v[2]) * shape[3] + v[3]

\* The volumes drawn: every voxel its own value, two alternating values,
\* and the all-zero volume
Volumes(shape) ==
    {[v \in Indices(shape) |-> 1 + LinIndex(v, shape)],
     [v \in Indices(shape) |-> 1 + (LinIndex(v, shape) % 2)],
     zeros(shape)}

PatchIdle ==
    /\ img = NULL /\ patch_shape = NULL /\ stride = NULL /\ patches = <<>>
    /\ out_arr = NULL /\ weights_inv = NULL /\ ppc = "idle" /\ perr = "none"

FitIdle == fit_in = NULL /\ fit_out = <<>> /\ fpc = "idle"

BatchIdle ==
    /\ batches = <<>> /\ tables = <<>> /\ call = NULL /\ ret = NULL
    /\ log = "" /\ ncalls = 0

PatchInit ==
    /\ FitIdle
    /\ BatchIdle
    /\ \E shape \in Shapes :
          /\ img \in Volumes(shape)
          /\ patch_shape \in {p \in Shapes : \A a \in Axes : p[a] <= shape[a]}
    /\ stride \in Shapes
    /\ patches = <<>>
    /\ out_arr = NULL
    /\ weights_inv = NULL
    /\ ppc = "start"
    /\ perr = "none"

\* The caller tiles the volume ...
Tile ==
    /\ ppc = "start"
    /\ patches' = put_patches_numba(img, patch_shape, stride)
    /\ ppc' = "tiled"
    /\ UNCHANGED <<img, patch_shape, stride, out_arr, weights_inv, perr>>
    /\ UNCHANGED <<fvars, bvars>>

\* ... and assembles the patches into a zero-filled array of the volume's
\* shape, with the same stride
Assemble ==
    /\ ppc = "tiled"
    /\ LET r == assemble_patches(patches, patch_shape, stride,
                                 zeros(ShapeOf(img)))
       IN  /\ out_arr' = r.out_arr
           /\ weights_inv' = r.weights_inv
           /\ perr' = r.err
    /\ ppc' = "assembled"
    /\ UNCHANGED <<img, patch_shape, stride, patches>>
    /\ UNCHANGED <<fvars, bvars>>

PatchNext == Tile \/ Assemble

SpecPatches == PatchInit /\ [][PatchNext]_vars

(***************************************************************************)
(* SpecFit: _fit_into_bounds on drawn records                              *)
(***************************************************************************)
FitMax == 3

\* The triples <<s[i], s[i+1], s[i+2]>> (cyclically) of a sequence: every
\* axis takes every value of s
Rot(s) ==
    LET n == Len(s)
    IN  {<<s[i], s[(i % n) + 1], s[((i + 1) % n) + 1]>> : i \in 1..n}

FitImgSizes == Rot([i \in 1..FitMax |-> i])
FitSizes == Rot([i \in 1..(FitMax + 1) |-> i])
FitCenters == Rot([i \in 1..(2 * FitMax + 1) |-> RI(i - 1)])
FitSpacings == Rot(<<RI(1), Rat(1, 2), Rat(3, 2)>>)
FitOrigins == {RZ3, <<RI(-1), RI(2), Rat(1, 2)>>}
FitJitters == Rot(<<R0, Rat(-5, 2), Rat(1, 3), Rat(7, 4), Rat(-1, 4)>>) \cup {RZ3}

FitInit ==
    /\ PatchIdle
    /\ BatchIdle
    /\ \E pos \in 0..1, isz \in FitImgSizes, c \in FitCenters,
          sp \in FitSpacings, org \in FitOrigins,
          size \in FitSizes, jit \in FitJitters :
          fit_in = [nodules |-> <<[patient_pos |-> pos,
                                   offset |-> <<pos * (FitMax + 1), 0, 0>>,
                                   img_size |-> isz,
                                   nodule_center |-> c,
                                   nodule_size |-> <<RI(2), RI(2), RI(2)>>,
                                   spacing |-> sp,
                                   origin |-> org]>>,
                    size |-> size,
                    jitter |-> <<jit>>]
    /\ fit_out = <<>>
    /\ fpc = "drawn"

FitIntoBounds ==
    /\ fpc = "drawn"
    /\ fpc' = "done"
    /\ fit_out' = _fit_into_bounds(fit_in.nodules, fit_in.size, fit_in.jitter)
    /\ UNCHANGED fit_in
    /\ UNCHANGED <<pvars, bvars>>

FitNext == FitIntoBounds

SpecFit == FitInit /\ [][FitNext]_vars

\* The start the clamps have not yet touched: rint(center_pix) -
\* rint(size / 2) + jitter, on axis a of the drawn record
FitUnclamped(a) ==
    RAdd(RI(rint(center_pix(fit_in.nodules[1])[a])
            - rint(Rat(fit_in.size[a], 2))),
         fit_in.jitter[1][a])

\* C1: on every axis where the requested size is <= the record's img_size,
\* the start _fit_into_bounds returns, less the record's offset, is >= 0 and
\* start + size <= img_size, whatever the center and the jitter sample.
C1_ClampCorrect ==
    fpc = "done" =>
        \A a \in Axes :
            LET rec == fit_in.nodules[1]
                st == fit_out[1][a] - rec.offset[a]
            IN  fit_in.size[a] <= rec.img_size[a] =>
                    st >= 0 /\ st + fit_in.size[a] <= rec.img_size[a]

\* C1's case: a non-integer jitter, a box that fits, and a start that the
\* lower clamp had to move on one axis and the upper clamp on another
C1_Witness ==
    /\ fpc = "done"
    /\ \A a \in Axes : fit_in.size[a] <= fit_in.nodules[1].img_size[a]
    /\ \E a \in Axes : fit_in.jitter[1][a][2] # 1
    /\ \E a \in Axes : ~RLe(R0, FitUnclamped(a))
    /\ \E a \in Axes :
          ~RLe(RAdd(FitUnclamped(a), RI(fit_in.size[a])),
               RI(fit_in.nodules[1].img_size[a]))

(***************************************************************************)
(* sample_nodules and what it calls                                        *)
(***************************************************************************)
Min(a, b) == IF a <= b THEN a ELSE b
Max(a, b) == IF a >= b THEN a ELSE b

\* An optional argument: None, or a value
NoArg == [given |-> FALSE, v |-> <<>>]
Arg(v) == [given |-> TRUE, v |-> v]

\* Lines 440-447: a variance whose flattened length is not 3 is dropped
\* (with a warning) and the call goes on as if none was given
VarianceCoerced(variance) ==
    IF variance.given /\ Len(variance.v) # 3 THEN Arg(<<1, 1, 1>>) ELSE variance
VarianceChecked(variance) ==
    IF variance.given /\ Len(variance.v) # 3 THEN NoArg ELSE variance

\* Lines 449-450: cancer_n = int(share * batch_size), at most num_nodules
CancerCountRounded(share, batch_size, num) ==
    Min(rint(RMul(share, RI(batch_size))), num)
CancerCount(share, batch_size, num) ==
    LET cancer_n == astype_int(RMul(share, RI(batch_size)))
    IN  IF cancer_n > num THEN num ELSE cancer_n

\* np.random.choice(np.arange(num), size=k, replace=False): the possible draws
ChoiceWithReplace(num, k) == [1..k -> 0..(num - 1)]
ChoiceNoReplace(num, k) ==
    {q \in [1..k -> 0..(num - 1)] : \A i, j \in 1..k : i # j => q[i] # q[j]}

\* The values one coordinate of a multivariate-normal sample may take where
\* the variance is positive (it is 0 where the variance is 0)
JitterVals == {Rat(-3, 2), Rat(5, 4)}
JitterRows(variance) ==
    IF ~variance.given THEN {RZ3}
    ELSE {t \in [Axes -> JitterVals \cup {R0}] :
            \A a \in Axes : (t[a] = R0) <=> (variance.v[a] = 0)}

\* The rows np.random.rand(num_nodules, 3) may hold
RandRows == {<<R0, Rat(1, 2), Rat(7, 8)>>, <<Rat(7, 8), R0, Rat(1, 2)>>}

\* Line 409: the span the uniform draw is scaled by, data_shape - nodule_size
\* (data_shape alone would let a box run past the patient's end)
RandomSpanWhole(shape, nodule_size) == shape
RandomSpan(shape, nodule_size) ==
    [a \in Axes |-> shape[a] - nodule_size[a]]

\* sample_random_nodules(num_nodules, nodule_size) with its two random draws
sample_random_nodules(b, num_nodules, nodule_size, sampled_indices, rand) ==
    [k \in 1..num_nodules |->
        LET pos == sampled_indices[k] + 1
            offset == <<lower_bounds(b)[pos], 0, 0>>
        IN  [a \in Axes |->
                astype_int(RAdd(RMul(rand[k][a],
                                     RI(RandomSpan(b.shape[pos], nodule_size)[a])),
                                RI(offset[a])))]]

\* The length of the Python slice start : start + size of an axis of length n
SliceLen(start, size, n) ==
    LET stop == start + size
        lo == IF start < 0 THEN Max(start + n, 0) ELSE Min(start, n)
        hi == IF stop < 0 THEN Max(stop + n, 0) ELSE Min(stop, n)
    IN  Max(hi - lo, 0)

\* get_nodules_numba copies every box: the assignment into out_arr[i] needs
\* a slice of exactly the box's size
get_nodules_numba(shape, positions, size) ==
    \A i \in DOMAIN positions : \A a \in Axes :
        SliceLen(positions[i][a], size[a], shape[a]) = size[a]

\* fetch_mask_data(mask_shape) on batch b with table nodules
fetch_mask_data(b, nodules, mask_shape) ==
    LET scale_factor == [a \in Axes |-> Rat(mask_shape[a], b.shape[1][a])]
        start_scaled(rec) ==
            LET cp == center_pix(rec)
            IN  [a \in Axes |->
                    rint(RSub(RMul(cp[a], scale_factor[a]),
                              RDiv(RDiv(RMul(scale_factor[a], rec.nodule_size[a]),
                                        rec.spacing[a]), RI(2))))]
        offset_scaled(rec) ==
            [a \in Axes |-> rint(RMul(RI(rec.offset[a]), scale_factor[a]))]
        img_size_scaled(rec) ==
            [a \in Axes |-> rint(RMul(RI(rec.img_size[a]), scale_factor[a]))]
        nod_size_scaled(rec) ==
            [a \in Axes |->
                rint(RDiv(RMul(scale_factor[a], rec.nodule_size[a]),
                          rec.spacing[a]))]
    IN  make_mask_numba(
            <<BatchLen(b) * mask_shape[1], mask_shape[2], mask_shape[3]>>,
            [i \in DOMAIN nodules |-> offset_scaled(nodules[i])],
            [i \in DOMAIN nodules |->
                [a \in Axes |-> img_size_scaled(nodules[i])[a]
                                  + offset_scaled(nodules[i])[a]]],
            [i \in DOMAIN nodules |-> start_scaled(nodules[i])],
            [i \in DOMAIN nodules |-> nod_size_scaled(nodules[i])])

\* What a sample_nodules call leaves: how it ended and the values of its
\* locals at that point
SampleEnd(kind, exc, variance, cancer_n, sample_indices, cancer_nodules, sampled_indices, random_nodules, mask_indices, batch_mask) ==
    [kind |-> kind, exc |-> exc, batch |-> 0, variance |-> variance,
     cancer_n |-> cancer_n, sample_indices |-> sample_indices,
     cancer_nodules |-> cancer_nodules, sampled_indices |-> sampled_indices,
     random_nodules |-> random_nodules,
     nodules_indices |-> cancer_nodules \o random_nodules,
     mask_indices |-> mask_indices, batch_mask |-> batch_mask]

\* sample_nodules from line 448 on, with the draws of its random sources
sample_nodules(b, nodules, batch_size, nodule_size, share, variance, mask_shape, sample_indices, jitter, sampled_indices, rand) ==
    LET cancer_n == CancerCount(share, batch_size, Len(nodules))
        fitted == _fit_into_bounds(nodules, nodule_size, jitter)
        cancer_nodules == [k \in 1..cancer_n |-> fitted[sample_indices[k] + 1]]
        random_nodules == sample_random_nodules(b, batch_size - cancer_n,
                                                nodule_size, sampled_indices, rand)
        nodules_indices == cancer_nodules \o random_nodules
        data_ok == get_nodules_numba(data_shape(b), nodules_indices, nodule_size)
        scale_factor == [a \in Axes |-> Rat(mask_shape.v[a], nodule_size[a])]
        batch_mask_shape ==
            [a \in Axes |-> rint(RMul(scale_factor[a], RI(b.shape[1][a])))]
        batch_mask == IF mask_shape.given
                      THEN fetch_mask_data(b, nodules, batch_mask_shape)
                      ELSE b.mask
        mask_indices ==
            IF mask_shape.given
            THEN [k \in DOMAIN nodules_indices |->
                    [a \in Axes |->
                        rint(RMul(scale_factor[a], RI(nodules_indices[k][a])))]]
            ELSE nodules_indices
        mask_size == IF mask_shape.given THEN mask_shape.v ELSE nodule_size
        exc == IF ~data_ok THEN "ValueError"
               ELSE IF ~batch_mask.present THEN "TypeError"
               ELSE IF ~get_nodules_numba(batch_mask.shape, mask_indices, mask_size)
               THEN "ValueError"
               ELSE "none"
    IN  SampleEnd(IF exc = "none" THEN "return" ELSE "raise", exc, variance,
                  cancer_n, sample_indices, cancer_nodules, sampled_indices,
                  random_nodules, mask_indices, batch_mask)

(***************************************************************************)
(* Spec: the batches of a pipeline.  Two batch objects are held at a time: *)
(* a call that returns a new batch puts it in the other slot, whose former *)
(* object is dropped.  A table no batch refers to is collected.            *)
(***************************************************************************)
MaxCalls == 4

BatchIds == {1, 2}
Tids == {1, 2}
Other(b) == 3 - b

Collect(bs, ts) ==
    [t \in Tids |->
        IF \E b \in BatchIds : bs[b].live /\ bs[b].nodules = t
        THEN ts[t] ELSE <<>>]

\* The id np.rec.array's new table gets: one no other batch refers to
FreshTid(bs, b) ==
    CHOOSE t \in Tids :
        /\ \A c \in BatchIds \ {b} : ~(bs[c].live /\ bs[c].nodules = t)
        /\ \A u \in Tids :
              (\A c \in BatchIds \ {b} : ~(bs[c].live /\ bs[c].nodules = u))
                  => t <= u

Ones3 == <<RI(1), RI(1), RI(1)>>

\* The batch a pipeline starts from: two patients loaded, no table, no mask
InitBatches ==
    {NewBatch(<<<<3, 2, 2>>, <<2, 2, 2>>>>, <<Ones3, Ones3>>,
              <<RZ3, <<RI(-1), R0, R0>>>>)}

\* Annotation rows: a nodule of patient 1 whose box crosses the patient's
\* bounds, a nodule of patient 2, and a nodule of patient 3, who is in no
\* batch
Row1 == [seriesuid |-> 1, coordZ |-> 2, coordY |-> 1, coordX |-> 1, diameter_mm |-> 4]
Row2 == [seriesuid |-> 2, coordZ |-> 0, coordY |-> 1, coordX |-> 0, diameter_mm |-> 2]
Row3 == [seriesuid |-> 3, coordZ |-> 1, coordY |-> 1, coordX |-> 1, diameter_mm |-> 2]

\* The annotation tables handed to fetch_nodules_info
Dataframes == {<<>>, <<Row1>>, <<Row2, Row3, Row1>>}

\* resize's shape argument, in (x, y, z) order
ResizeShapes == {<<2, 2, 4>>, <<3, 2, 2>>}
Projections == {"axial", "coronal", "sagital", "oblique"}
XipDepths == {2}
XipCuts == {1}

Returned(b) == [kind |-> "return", batch |-> b, exc |-> "none"]
Raised(e) == [kind |-> "raise", batch |-> 0, exc |-> e]

BatchInit ==
    /\ PatchIdle
    /\ FitIdle
    /\ \E b0 \in InitBatches : batches = [b \in BatchIds |-> IF b = 1 THEN b0 ELSE DeadBatch]
    /\ tables = [t \in Tids |-> <<>>]
    /\ call = [op |-> "__init__", self |-> 1]
    /\ ret = Returned(1)
    /\ log = ""
    /\ ncalls = 0

\* fetch_nodules_info(nodules_df, update)
FetchNodulesInfo(b, df, update) ==
    /\ UNCHANGED <<pvars, fvars>>
    /\ batches[b].live
    /\ ncalls < MaxCalls
    /\ ncalls' = ncalls + 1
    /\ call' = [op |-> "fetch_nodules_info", self |-> b, update |-> update]
    /\ IF KeepsTable(batches[b], update)
       THEN /\ log' = "Nodules have already been extracted"
            /\ UNCHANGED <<batches, tables>>
       ELSE LET t == FreshTid(batches, b)
                bs == [batches EXCEPT ![b].nodules = t]
            IN  /\ batches' = bs
                /\ tables' = Collect(bs, [tables EXCEPT ![t] =
                                 _refresh_nodules_info(NoduleRows(df), batches[b])])
                /\ log' = ""
    /\ ret' = Returned(b)

\* _refresh_nodules_info() called on batch b
RefreshNodulesInfo(b) ==
    /\ UNCHANGED <<pvars, fvars>>
    /\ batches[b].live
    /\ ncalls < MaxCalls
    /\ ncalls' = ncalls + 1
    /\ call' = [op |-> "_refresh_nodules_info", self |-> b,
                \* the call directly follows a completed one on the same batch
                again |-> (call.op = "_refresh_nodules_info" /\ call.self = b
                              /\ ret.kind = "return")]
    /\ IF batches[b].nodules = 0
       THEN /\ ret' = Raised("AttributeError")
            /\ UNCHANGED tables
       ELSE /\ tables' = [tables EXCEPT ![batches[b].nodules] =
                             _refresh_nodules_info(@, batches[b])]
            /\ ret' = Returned(0)
    /\ log' = ""
    /\ UNCHANGED batches

\* The table batch value bv refers to (<<>> when it has none)
TableOf(bv, ts) == IF bv.nodules = 0 THEN <<>> ELSE ts[bv.nodules]

\* create_mask()
CreateMask(b) ==
    /\ UNCHANGED <<pvars, fvars>>
    /\ batches[b].live
    /\ ncalls < MaxCalls
    /\ ncalls' = ncalls + 1
    /\ call' = [op |-> "create_mask", self |-> b]
    /\ LET r == create_mask(batches[b], batches[b].nodules # 0,
                            TableOf(batches[b], tables))
       IN  /\ batches' = [batches EXCEPT ![b].mask = r.mask]
           /\ ret' = IF r.exc = "none" THEN Returned(b) ELSE Raised(r.exc)
           /\ log' = r.log
    /\ UNCHANGED tables

\* if self.mask is not None: batch.create_mask() -- the rebuilt batch nb
\* with the mask create_mask left on it (without the call a batch rebuilt in
\* place would keep the mask of its former data)
RebuiltMaskKept(nb, had_mask, mask) == nb
RebuiltMask(nb, had_mask, mask) ==
    IF had_mask THEN [nb EXCEPT !.mask = mask] ELSE nb

\* What follows the rebuild in _post_rebuild and make_xip, for the batch
\* value nb (already holding self's table reference) that goes to slot dst:
\* batch._rescale_spacing(), then batch.create_mask() if self.mask is set.
\* A create_mask that raises ends the call: a new batch is then lost, a
\* batch rebuilt in place keeps what was written before the exception.
FinishRebuild(b, dst, nb, ts) ==
    LET ts1 == IF nb.nodules = 0 THEN ts
               ELSE [ts EXCEPT ![nb.nodules] = _refresh_nodules_info(@, nb)]
        cm == create_mask(nb, nb.nodules # 0, TableOf(nb, ts1))
        nb1 == RebuiltMask(nb, batches[b].mask.present, cm.mask)
        failed == batches[b].mask.present /\ cm.exc # "none"
        bs == IF failed /\ dst # b THEN batches
              ELSE [batches EXCEPT ![dst] = nb1]
    IN  /\ batches' = bs
        /\ tables' = Collect(bs, ts1)
        /\ ret' = IF failed THEN Raised(cm.exc) ELSE Returned(dst)
        /\ log' = IF batches[b].mask.present THEN cm.log ELSE ""

\* resize(shape, new_batch=...) with its post function _post_rebuild
Resize(b, shape, new_batch) ==
    /\ UNCHANGED <<pvars, fvars>>
    /\ batches[b].live
    /\ ncalls < MaxCalls
    /\ ncalls' = ncalls + 1
    /\ call' = [op |-> "resize", self |-> b, shape |-> shape,
                new_batch |-> new_batch]
    /\ LET new_shape == <<shape[3], shape[2], shape[1]>>
           rebuilt == base_post_rebuild(batches[b], new_shape)
           \* a new batch is loaded with mask and nodules None; a batch
           \* rebuilt in place keeps its own
           nb0 == IF new_batch
                  THEN NewBatch(rebuilt.shape, rebuilt.spacing, rebuilt.origin)
                  ELSE rebuilt
           nb == [nb0 EXCEPT !.nodules = batches[b].nodules]
       IN  FinishRebuild(b, IF new_batch THEN Other(b) ELSE b, nb, tables)

ProjectionAxis(projection) ==
    CASE projection = "axial" -> 1
      [] projection = "coronal" -> 2
      [] projection = "sagital" -> 3
      [] OTHER -> 0

\* batch.nodules.nodule_size[:, pr] += depth * self.nodules.spacing[:, pr]
XipNoduleSize(nodules, pr, depth) ==
    [i \in DOMAIN nodules |->
        [nodules[i] EXCEPT !.nodule_size[pr] =
            RAdd(@, RMul(RI(depth), nodules[i].spacing[pr]))]]

\* make_xip(depth, projection): cut is the number of slices the projection
\* of the base class removes
MakeXip(b, depth, projection, cut) ==
    /\ UNCHANGED <<pvars, fvars>>
    /\ batches[b].live
    /\ ncalls < MaxCalls
    /\ ncalls' = ncalls + 1
    /\ call' = [op |-> "make_xip", self |-> b, depth |-> depth,
                projection |-> projection]
    /\ LET pr == ProjectionAxis(projection)
       IN  IF pr = 0
           THEN /\ ret' = Raised("UnboundLocalError")
                /\ log' = ""
                /\ UNCHANGED <<batches, tables>>
           ELSE IF batches[b].nodules = 0
           THEN /\ ret' = Raised("AttributeError")
                /\ log' = ""
                /\ UNCHANGED <<batches, tables>>
           ELSE LET xb == base_make_xip(batches[b], pr, cut)
                    ts1 == [tables EXCEPT ![batches[b].nodules] =
                               XipNoduleSize(@, pr, depth)]
                    nb0 == NewBatch(xb.shape, rescale(batches[b], xb.shape[1]),
                                    xb.origin)
                    nb == [nb0 EXCEPT !.nodules = batches[b].nodules]
                IN  FinishRebuild(b, Other(b), nb, ts1)

Next ==
    \/ \E b \in BatchIds, df \in Dataframes, update \in BOOLEAN :
          FetchNodulesInfo(b, df, update)
    \/ \E b \in BatchIds : RefreshNodulesInfo(b)
    \/ \E b \in BatchIds : CreateMask(b)
    \/ \E b \in BatchIds, shape \in ResizeShapes, new_batch \in BOOLEAN :
          Resize(b, shape, new_batch)
    \/ \E b \in BatchIds, depth \in XipDepths, projection \in Projections,
          cut \in XipCuts :
          MakeXip(b, depth, projection, cut)

Spec == BatchInit /\ [][Next]_vars

(***************************************************************************)
(* SpecSample: a sampling pipeline on one batch: fetch_nodules_info, then  *)
(* resize in place, then create_mask, each optional, then sample_nodules.  *)
(* sample_nodules changes nothing of the batch it is called on, so the     *)
(* pipeline ends with it.                                                  *)
(***************************************************************************)
MaxBatchSize == 2

SampleSizes == {<<1, 1, 1>>, <<2, 2, 1>>, <<3, 2, 2>>}
Shares == {R0, Rat(1, 2), Rat(3, 4), RI(1)}
Variances == {NoArg, Arg(<<1, 0, 0>>), Arg(<<1, 1>>)}
MaskShapes == {NoArg, Arg(<<1, 1, 1>>), Arg(<<3, 1, 1>>)}

\* resize's shape argument in the pipeline, in (x, y, z) order
SampleResizes == {<<2, 2, 2>>, <<2, 2, 3>>}

\* sample_nodules(batch_size, nodule_size, share, variance, mask_shape,
\* if_tensor)
SampleNodules(b, batch_size, nodule_size, share, variance, mask_shape, if_tensor) ==
    /\ UNCHANGED <<pvars, fvars>>
    /\ batches[b].live
    /\ ncalls < MaxCalls
    /\ ncalls' = ncalls + 1
    /\ call' = [op |-> "sample_nodules", self |-> b, batch_size |-> batch_size,
                nodule_size |-> nodule_size, share |-> share,
                variance |-> variance, mask_shape |-> mask_shape,
                if_tensor |-> if_tensor]
    /\ UNCHANGED <<batches, tables>>
    /\ IF batches[b].nodules = 0
       THEN /\ ret' = SampleEnd("raise", "AttributeError", variance, 0, <<>>,
                                <<>>, <<>>, <<>>, <<>>, NoMask)
            /\ log' = ""
       ELSE LET nodules == tables[batches[b].nodules]
                checked == VarianceChecked(variance)
                cancer_n == CancerCount(share, batch_size, Len(nodules))
            IN  /\ log' = IF variance.given /\ ~checked.given
                          THEN "Argument variance be np.array-like and has shape (3,)"
                          ELSE ""
                /\ \E sample_indices \in ChoiceNoReplace(Len(nodules), cancer_n),
                      jitter \in [DOMAIN nodules -> JitterRows(checked)],
                      sampled_indices \in [1..(batch_size - cancer_n) ->
                                              0..(BatchLen(batches[b]) - 1)],
                      rand \in [1..(batch_size - cancer_n) -> RandRows] :
                      ret' = sample_nodules(batches[b], nodules, batch_size,
                                 nodule_size, share, checked, mask_shape,
                                 sample_indices, jitter, sampled_indices, rand)

\* The place of a method in the pipeline
Stage(op) ==
    CASE op = "__init__" -> 0
      [] op = "fetch_nodules_info" -> 1
      [] op = "resize" -> 2
      [] op = "create_mask" -> 3
      [] OTHER -> 4

SampleNext ==
    \/ Stage(call.op) < 1 /\ \E df \in Dataframes : FetchNodulesInfo(1, df, FALSE)
    \/ Stage(call.op) < 2 /\ \E shape \in SampleResizes : Resize(1, shape, FALSE)
    \/ Stage(call.op) < 3 /\ CreateMask(1)
    \/ Stage(call.op) < 4 /\
          \E batch_size \in 1..MaxBatchSize, nodule_size \in SampleSizes,
             share \in Shares, variance \in Variances,
             mask_shape \in MaskShapes, if_tensor \in BOOLEAN :
             SampleNodules(1, batch_size, nodule_size, share, variance,
                           mask_shape, if_tensor)

SpecSample == BatchInit /\ [][SampleNext]_vars

(***************************************************************************)
(* Claims about the patch kernels (SpecPatches)                            *)
(***************************************************************************)
\* (shape - patch_shape) % stride == 0 on every axis
Divisible ==
    \A a \in Axes : (ShapeOf(img)[a] - patch_shape[a]) % stride[a] = 0

\* The assembled array equals the volume at every voxel
RoundTrip ==
    /\ DOMAIN out_arr = DOMAIN img
    /\ \A v \in DOMAIN img : out_arr[v] = RI(img[v])

\* C2: with stride == patch_shape on every axis and (shape - patch_shape)
\* divisible by stride, assembling the patches of put_patches_numba into a
\* zero-initialised array of the volume's shape reproduces the volume at
\* every voxel.
C2_ExactTilingRoundTrip ==
    (ppc = "assembled" /\ stride = patch_shape /\ Divisible) => RoundTrip

\* C3: with stride < patch_shape and (shape - patch_shape) % stride == 0 on
\* every axis, assemble_patches accumulates the patches, counts the
\* overlaps, and the output after the division equals the volume at every
\* voxel.
C3_OverlapRoundTrip ==
    (ppc = "assembled" /\ Divisible
        /\ \A a \in Axes : stride[a] < patch_shape[a])
    => (perr = "none" /\ RoundTrip)

(***************************************************************************)
(* Claims about the batches (Spec)                                         *)
(***************************************************************************)
\* The rows patient position pos (0-based) holds in batch value bv
PatientRange(bv, pos) ==
    Box(<<lower_bounds(bv)[pos + 1], 0, 0>>, bv.shape[pos + 1])

\* The step is a call of method op
Calls(op) == ncalls' # ncalls /\ call'.op = op

\* C4: after create_mask every foreground voxel written for a record lies
\* inside that record's sub-range offset .. offset + img_size of the stacked
\* mask, and no record causes a foreground voxel inside another patient's
\* sub-range of the batch.
C4_MaskContainment ==
    \A b \in BatchIds :
        (batches[b].live /\ batches[b].mask.present /\ batches[b].nodules # 0
            /\ call.op = "create_mask" /\ call.self = b /\ ret.kind = "return")
        => \A i \in DOMAIN batches[b].mask.written :
              LET w == batches[b].mask.written[i]
                  pos == tables[batches[b].nodules][i].patient_pos
              IN  /\ w.voxels \subseteq Range(w.img_start, w.img_end)
                  /\ \A q \in 0..(BatchLen(batches[b]) - 1) :
                        q # pos => w.voxels \cap PatientRange(batches[b], q) = {}

\* A record's cached geometry equals that of its patient in batch value bv
RecordFresh(rec, bv) ==
    /\ rec.offset = <<lower_bounds(bv)[rec.patient_pos + 1], 0, 0>>
    /\ rec.img_size = bv.shape[rec.patient_pos + 1]
    /\ rec.spacing = bv.spacing[rec.patient_pos + 1]
    /\ rec.origin = bv.origin[rec.patient_pos + 1]

\* C5: in every reachable state, for every batch that holds a nodule table
\* (a returned batch and the source batch that still refers to the table),
\* each record's offset, img_size, spacing and origin equal the current
\* lower bound, shape, spacing and origin of that batch's volume for the
\* record's patient.
C5_RecordsMatchVolume ==
    \A b \in BatchIds :
        (batches[b].live /\ batches[b].nodules # 0)
        => \A i \in DOMAIN tables[batches[b].nodules] :
              RecordFresh(tables[batches[b].nodules][i], batches[b])

\* C6: a _refresh_nodules_info call that directly follows another one on the
\* same batch leaves every field of every record of the table as it was.
C6_RefreshIdempotent ==
    [][(Calls("_refresh_nodules_info") /\ call'.again) => tables' = tables]_vars

\* C6's case: the second of two calls in a row has run on a batch whose
\* table holds a record of the second patient (a non-zero offset)
C6_Witness ==
    /\ call.op = "_refresh_nodules_info"
    /\ call.again
    /\ ret.kind = "return"
    /\ \E i \in DOMAIN tables[batches[call.self].nodules] :
          tables[batches[call.self].nodules][i].offset[1] > 0

\* C7: fetch_nodules_info on a batch whose table is populated, without
\* update=True, leaves the nodule table, the data geometry and the mask
\* unchanged and returns the same batch; a fetch_nodules_info that changes a
\* populated batch's table is a call with update=True.
C7_FetchKeepsTable ==
    [][(Calls("fetch_nodules_info") /\ batches[call'.self].nodules # 0)
        => /\ ~call'.update =>
                (batches' = batches /\ tables' = tables
                    /\ ret' = Returned(call'.self))
           /\ (tables' # tables \/ batches' # batches) => call'.update]_vars

\* C7's case: a fetch without update has returned on a batch whose table
\* holds records
C7_Witness ==
    /\ call.op = "fetch_nodules_info"
    /\ ~call.update
    /\ log = "Nodules have already been extracted"
    /\ batches[call.self].nodules # 0
    /\ tables[batches[call.self].nodules] # <<>>

\* C8: create_mask on a batch whose nodule table has not been ingested is a
\* no-op: it does not raise and leaves the mask and the table as they were.
C8_CreateMaskNoTableNoOp ==
    [][(Calls("create_mask") /\ batches[call'.self].nodules = 0)
        => /\ ret'.kind = "return"
           /\ batches'[call'.self].mask = batches[call'.self].mask
           /\ tables' = tables]_vars

(***************************************************************************)
(* Claims about sample_nodules (SpecSample)                                *)
(***************************************************************************)
\* The last call is sample_nodules on a batch whose table is loaded
Sampled == call.op = "sample_nodules" /\ batches[call.self].nodules # 0

\* The variance argument of the last call has a flattened length other than 3
BadVariance == call.variance.given /\ Len(call.variance.v) # 3

SampledTable == tables[batches[call.self].nodules]

\* The jitter of a call without variance
NoJitter == [i \in DOMAIN SampledTable |-> RZ3]

\* C9 as stated: sample_nodules called with a variance vector whose
\* flattened length is not 3 fails at once with an error: no boxes are
\* sampled and no batch is returned.
C9_BadVarianceFails ==
    (call.op = "sample_nodules" /\ BadVariance)
    => (ret.kind = "raise" /\ ret.nodules_indices = <<>>)

\* C9 as amended: sample_nodules called with a variance vector whose
\* flattened length is not 3 logs a warning, drops the variance and ends as
\* the same call with variance=None can end: the positive boxes are the
\* clamped boxes without jitter and batch_size boxes are sampled.
C9_BadVarianceDropped ==
    (Sampled /\ BadVariance)
    => /\ log = "Argument variance be np.array-like and has shape (3,)"
       /\ ret.variance = NoArg
       /\ Len(ret.nodules_indices) = call.batch_size
       /\ \E sampled_indices \in [1..Len(ret.random_nodules) ->
                                    0..(BatchLen(batches[call.self]) - 1)],
             rand \in [1..Len(ret.random_nodules) -> RandRows] :
             ret = sample_nodules(batches[call.self], SampledTable,
                       call.batch_size, call.nodule_size, call.share, NoArg,
                       call.mask_shape, ret.sample_indices, NoJitter,
                       sampled_indices, rand)

\* C9's case: a call with a variance of length 2 has returned its batch, with
\* a positive box in it
C9_Witness ==
    /\ Sampled
    /\ BadVariance
    /\ ret.kind = "return"
    /\ ret.cancer_n > 0

\* C10 as stated: n_pos = min(round(positive_share * batch_size),
\* num_records) positive boxes and n_neg = batch_size - n_pos negative
\* boxes, batch_size boxes in all, positives first.
C10_PositiveCountRounded ==
    Sampled
    => /\ ret.cancer_n = Min(rint(RMul(call.share, RI(call.batch_size))),
                             Len(SampledTable))
       /\ Len(ret.random_nodules) = call.batch_size - ret.cancer_n
       /\ Len(ret.nodules_indices) = call.batch_size

\* C10 as amended: n_pos = min(int(positive_share * batch_size),
\* num_records), the product truncated toward zero, not rounded;
\* n_neg = batch_size - n_pos; batch_size boxes in all, the n_pos positive
\* boxes first, each the clamped box of a record of the table.
C10_PositiveCountTruncated ==
    Sampled
    => /\ ret.cancer_n = Min(astype_int(RMul(call.share, RI(call.batch_size))),
                             Len(SampledTable))
       /\ Len(ret.cancer_nodules) = ret.cancer_n
       /\ Len(ret.random_nodules) = call.batch_size - ret.cancer_n
       /\ Len(ret.nodules_indices) = call.batch_size
       /\ \A k \in 1..ret.cancer_n :
             /\ ret.nodules_indices[k] = ret.cancer_nodules[k]
             /\ ret.sample_indices[k] \in 0..(Len(SampledTable) - 1)
       /\ \A k \in 1..Len(ret.random_nodules) :
             ret.nodules_indices[ret.cancer_n + k] = ret.random_nodules[k]

\* C10's case: a returned sample where rounding and truncating the product
\* differ, the table holds enough records for either count, and the batch
\* mixes positive and negative boxes
C10_Witness ==
    /\ Sampled
    /\ ret.kind = "return"
    /\ rint(RMul(call.share, RI(call.batch_size)))
          # astype_int(RMul(call.share, RI(call.batch_size)))
    /\ Len(SampledTable) >= rint(RMul(call.share, RI(call.batch_size)))
    /\ ret.cancer_n >= 1
    /\ Len(ret.random_nodules) >= 1

\* The patient (1-based position) random box k of the last call was drawn in
DrawnPatient(k) == ret.sampled_indices[k] + 1

\* nodule_size <= the shape of patient p on every axis
FitsPatient(p) ==
    \A a \in Axes : call.nodule_size[a] <= batches[call.self].shape[p][a]

\* The start of random box k relative to its patient's offset in the stack
RelStart(k) ==
    [ret.random_nodules[k] EXCEPT
        ![1] = @ - lower_bounds(batches[call.self])[DrawnPatient(k)]]

Sections(a) == ((ShapeOf(img)[a] - patch_shape[a]) \div stride[a]) + 1

\* The output index of the patch with section indices i0, i1, i2 (1-based in
\* the sequence patches)
OutputIndex(i0, i1, i2) == (i0 * Sections(2) + i1) * Sections(3) + i2 + 1

SectionStart(i0, i1, i2) == <<i0 * stride[1], i1 * stride[2], i2 * stride[3]>>

\* put_patches_numba gave prod Sections(a) patches, patch k the sub-volume
\* that starts at its section's start
TiledInOrder ==
    /\ Len(patches) = Sections(1) * Sections(2) * Sections(3)
    /\ \A i0 \in 0..(Sections(1) - 1), i1 \in 0..(Sections(2) - 1),
          i2 \in 0..(Sections(3) - 1) :
          LET st == SectionStart(i0, i1, i2)
              patch == patches[OutputIndex(i0, i1, i2)]
          IN  /\ DOMAIN patch = Indices(patch_shape)
              /\ \A v \in Indices(patch_shape) :
                    patch[v] = img[<<st[1] + v[1], st[2] + v[2], st[3] + v[3]>>]

\* assemble_patches put patch k at its section's start: every voxel of the
\* box is counted, and a voxel only that patch covers holds the patch's value
AssembledInOrder ==
    /\ perr = "none"
    /\ \A i0 \in 0..(Sections(1) - 1), i1 \in 0..(Sections(2) - 1),
          i2 \in 0..(Sections(3) - 1) :
          LET st == SectionStart(i0, i1, i2)
              patch == patches[OutputIndex(i0, i1, i2)]
          IN  \A v \in Indices(patch_shape) :
                 LET w == <<st[1] + v[1], st[2] + v[2], st[3] + v[3]>>
                 IN  /\ weights_inv[w] >= 1
                     /\ weights_inv[w] = 1 => out_arr[w] = RI(patch[v])

\* C12: put_patches_numba produces exactly prod over axes of
\* floor((shape[a] - patch_shape[a]) / stride[a]) + 1 patches, the patch
\* with output index k = (i0*n1 + i1)*n2 + i2 is the sub-volume starting at
\* (i0*stride[0], i1*stride[1], i2*stride[2]), and assemble_patches places
\* patch k at the same position.
C12_SameOrder ==
    /\ ppc \in {"tiled", "assembled"} => TiledInOrder
    /\ ppc = "assembled" => AssembledInOrder

\* The tiling half of C12 on its own
TilesInOrder == ppc \in {"tiled", "assembled"} => TiledInOrder

(***************************************************************************)
(* Claims about boxes larger than the image (SpecFit)                      *)
(***************************************************************************)
\* C13: in _fit_into_bounds without jitter, on any axis where size > img_size
\* the box is pinned to the lower bound: the returned start minus the
\* record's offset is exactly 0 on that axis, for every nodule center.
C13_PinnedToLowerBound ==
    (fpc = "done" /\ fit_in.jitter[1] = RZ3)
    => \A a \in Axes :
          fit_in.size[a] > fit_in.nodules[1].img_size[a]
          => fit_out[1][a] - fit_in.nodules[1].offset[a] = 0

\* C13's case: no jitter, a record of the second patient (a non-zero
\* offset), and an axis where the size exceeds the image and the unclamped
\* start is positive, so that both clamps moved it
C13_Witness ==
    /\ fpc = "done"
    /\ fit_in.jitter[1] = RZ3
    /\ fit_in.nodules[1].offset[1] > 0
    /\ \E a \in Axes :
          /\ fit_in.size[a] > fit_in.nodules[1].img_size[a]
          /\ ~RLe(FitUnclamped(a), R0)

(***************************************************************************)
(* Claims about the overlap counter (SpecPatches)                          *)
(***************************************************************************)
\* The sections whose canonical patch box contains voxel v
BoxesContaining(v) ==
    {t \in (0..(Sections(1) - 1)) \X (0..(Sections(2) - 1))
              \X (0..(Sections(3) - 1)) :
        v \in Box(SectionStart(t[1], t[2], t[3]), patch_shape)}

\* C16: in assemble_patches, whenever stride <= patch_shape and
\* (out_shape - patch_shape) % stride == 0 on every axis, every voxel of the
\* output has overlap counter >= 1 before the final division, and the
\* counter of a voxel equals the number of canonical patch boxes that
\* contain it.
C16_OverlapCounter ==
    (ppc = "assembled" /\ Divisible
        /\ \A a \in Axes : stride[a] <= patch_shape[a])
    => \A v \in DOMAIN img :
          /\ weights_inv[v] >= 1
          /\ weights_inv[v] = Cardinality(BoxesContaining(v))

(***************************************************************************)
(* Claims about the scaled mask crop (SpecSample)                          *)
(***************************************************************************)
\* The patient (1-based position) box k of the last call was taken from:
\* the record's patient for a positive box, the drawn patient for a
\* negative one
BoxPatient(k) ==
    IF k <= ret.cancer_n
    THEN SampledTable[ret.sample_indices[k] + 1].patient_pos + 1
    ELSE DrawnPatient(k - ret.cancer_n)

\* The per-patient scaled shape rint(scale * shape), scale = mask_shape /
\* nodule_size
ScaledShape ==
    [a \in Axes |->
        rint(RMul(Rat(call.mask_shape.v[a], call.nodule_size[a]),
                  RI(batches[call.self].shape[1][a])))]

\* Patient p's sub-range of the scaled mask array
ScaledRange(p) ==
    Box(<<(p - 1) * ScaledShape[1], 0, 0>>, ScaledShape)

\* Every patient of the batch has the first patient's shape
EqualShapes ==
    \A p \in 1..BatchLen(batches[call.self]) :
        batches[call.self].shape[p] = batches[call.self].shape[1]

\* C17: in sample_nodules with mask_shape given, for every sampled box in
\* any patient of a multi-patient batch, the scaled start
\* rint(scale * start) together with mask_shape lies inside the scaled mask
\* array built by fetch_mask_data and inside the scaled sub-range of the
\* patient the data box was taken from.  (Stated here for batches of equally
\* shaped patients and for data boxes that lie inside their patient.)
C17_ScaledCropCorresponds ==
    (Sampled /\ call.mask_shape.given /\ EqualShapes)
    => \A k \in DOMAIN ret.nodules_indices :
          Box(ret.nodules_indices[k], call.nodule_size)
              \subseteq PatientRange(batches[call.self], BoxPatient(k) - 1)
          => /\ ret.mask_indices[k] =
                   [a \in Axes |->
                       rint(RMul(Rat(call.mask_shape.v[a], call.nodule_size[a]),
                                 RI(ret.nodules_indices[k][a])))]
             /\ Box(ret.mask_indices[k], call.mask_shape.v)
                   \subseteq Indices(ret.batch_mask.shape)
             /\ Box(ret.mask_indices[k], call.mask_shape.v)
                   \subseteq ScaledRange(BoxPatient(k))

(***************************************************************************)
(* Claims about the mask after a rebuild (Spec)                            *)
(***************************************************************************)
\* A mask a batch holds has the shape of the batch's data
MaskFitsData ==
    \A b \in BatchIds :
        (batches[b].live /\ batches[b].mask.present)
        => batches[b].mask.shape = data_shape(batches[b])

\* A resize or make_xip that returns, on a batch whose mask was present,
\* leaves on the batch it returns the mask create_mask builds from the
\* refreshed table
RebuildRegeneratesMask ==
    ((Calls("resize") \/ Calls("make_xip"))
        /\ batches[call'.self].mask.present /\ ret'.kind = "return")
    => LET rb == batches'[ret'.batch]
       IN  /\ rb.mask.present
           /\ rb.mask.shape = data_shape(rb)
           /\ rb.nodules # 0
           /\ \A i \in DOMAIN tables'[rb.nodules] :
                 RecordFresh(tables'[rb.nodules][i], rb)
           /\ rb.mask = create_mask(rb, TRUE, tables'[rb.nodules]).mask

PositiveCount == astype_int(RMul(call.share, RI(call.batch_size)))

\* C15: the positive part of sample_nodules selects min(count, num_records)
\* pairwise distinct record indices (no record is used twice; when count
\* exceeds the number of records every record is used exactly once), and
\* each positive box is the clamped box of the selected record.
C15_DistinctPositives ==
    Sampled
    => /\ Len(ret.sample_indices) = Min(PositiveCount, Len(SampledTable))
       /\ \A i, j \in DOMAIN ret.sample_indices :
             i # j => ret.sample_indices[i] # ret.sample_indices[j]
       /\ PositiveCount >= Len(SampledTable)
             => {ret.sample_indices[i] : i \in DOMAIN ret.sample_indices}
                   = 0..(Len(SampledTable) - 1)
       /\ Len(ret.cancer_nodules) = Len(ret.sample_indices)
       /\ \A k \in DOMAIN ret.sample_indices :
             /\ ret.sample_indices[k] \in 0..(Len(SampledTable) - 1)
             /\ \E jit \in JitterRows(ret.variance) :
                   ret.cancer_nodules[k] =
                      FitRow(SampledTable[ret.sample_indices[k] + 1],
                             call.nodule_size, jit)

\* C15's case: a returned sample that drew two positive boxes from a table
\* of two records
C15_Witness ==
    /\ Sampled
    /\ ret.kind = "return"
    /\ Len(SampledTable) = 2
    /\ Len(ret.sample_indices) = 2

====
